---- MODULE Spec2Model ----
(***************************************************************************)
(* Payment-status reconciliation of the Carnimore checkout: the postback   *)
(* handlers (netlify/functions/payment-postback.ts and its two earlier     *)
(* revisions unnamed/part_004, unnamed/part_006) writing the Supabase      *)
(* tables orders, payment_logs and payments, and the charge initiation     *)
(* path (paymentService.processPayment -> netlify/functions/               *)
(* process-payment.ts -> eProcessingNetwork).                              *)
(*                                                                         *)
(* One revision of each file is deployed at a time: `variant` names the    *)
(* deployed postback handler and `svc` the deployed paymentService.        *)
(***************************************************************************)
EXTENDS Integers, Sequences, FiniteSets, Bags, TLC

VARIABLES
    variant,        \* which postback handler is deployed
    orders,         \* table orders: order_id -> row
    payment_logs,   \* table payment_logs: transaction_id -> row
    payments,       \* table payments: a bag of rows (no key, insert only)
    req,            \* summary of the postback whose answer is in `resp`
    resp,           \* the handler's HTTP answer not yet read by the processor
    svc,            \* which paymentService is deployed
    configured,     \* process-payment.ts: EPN_ACCOUNT and EPN_RESTRICT_KEY are set
    call,           \* order id -> the processPayment call of that checkout
    result,         \* order id -> the Result<PaymentResult> returned to the page
    fnReq,          \* order ids whose POST to process-payment is in flight
    fnResp,         \* order id -> status code process-payment answered (0: none)
    epnWait,        \* order ids whose request to the processor awaits its reply
    epnSent,        \* order ids whose authorization request was sent
    total,          \* order id -> the amount in the request for it (<<>>: none)
    console,        \* what process-payment.ts has written with console.log
    fnEnd,          \* order id -> the error process-payment.ts caught and the
                    \* body it answered
    page,           \* CheckoutPage: its state, handleSubmit's position, the route
    timer,          \* the 2 minute timer of handleSubmit
    dwell,          \* the 5 second waits in progress, each with what follows it
    sub,            \* the realtime subscription of subscribeToPaymentUpdates
    events,         \* postgres_changes messages on their way to the browser
    watch,          \* subscribeToOrder of part_003:114-157 (polling)
    calls           \* how often the polling callback has been invoked

ingestVars == <<variant, orders, payment_logs, payments, req, resp>>

initiateVars ==
    <<svc, configured, call, result, fnReq, fnResp, epnWait, epnSent, total,
      console, fnEnd>>

vars == <<variant, orders, payment_logs, payments, req, resp,
          svc, configured, call, result, fnReq, fnResp, epnWait, epnSent, total,
          console, fnEnd, page, timer, dwell, sub, events, watch, calls>>

pageVars == <<page, timer, dwell, sub>>

pollVars == <<watch, calls>>

clientVars == <<page, timer, dwell, sub, events, watch, calls>>

store == <<orders, payment_logs, payments>>

----------------------------------------------------------------------------
(* Bounds and domains                                                      *)

\* cap on the rows of table payments (the table only grows)
MaxPayments == 2

\* cap on the status requests of the polling client that are unanswered
MaxInflight == 2

\* cap on the counted invocations of the polling callback
MaxCalls == 3

OrderIds == {"o1", "o2"}
TxIds == {"t1", "t2"}

\* the order ids crypto.randomUUID() gives the checkouts that are submitted
Checkouts == {"o1"}

\* process.env.EPN_X_TRAN as configured, and some other value
EPN_RESTRICT_KEY == "key"
WrongKey == "wrong"

Variants == {"payment-postback", "part_004", "part_006"}

\* wire formats of a postback body: a JSON object, or key=value pairs
\* separated by ',' or by ';'
Formats == {"json", "comma", "semi"}

\* The processor's outcome code (Y approved, N declined, U unable to process).
\* It travels as field Success (payment-postback.ts:56, part_006:177) or as
\* the first character of field FullResponse (part_004:130-133).
Outcomes == {"Y", "N", "U"}

\* auth code the processor issues with an approval of transaction t
AuthOf(outcome, t) ==
    IF outcome = "Y" /\ t = "t1" THEN "a1"
    ELSE IF outcome = "Y" /\ t = "t2" THEN "a2"
    ELSE ""

\* event.body, as the fields it carries: "" is a field that is not in the body.
\* The order id travels as Postback.OrderID, PostbackID or OrderID.
Body(f, oc, t, of, k) ==
    [ fmt |-> f, Outcome |-> oc, XactID |-> t,
      PostbackOrderID |-> of[1], PostbackID |-> of[2], OrderID |-> of[3],
      RestrictKey |-> k, AuthCode |-> AuthOf(oc, t), Response |-> "" ]

\* every outcome, both transactions and both orders, no secret
PlainBodies ==
    { Body("comma", oc, t, of, "") :
        oc \in Outcomes, t \in TxIds,
        of \in { <<"o1", "", "">>, <<"", "", "o2">> } }

\* the same fields as a JSON object and as a ';' separated list
FormatBodies ==
    { Body(f, oc, "t1", <<"o1", "", "">>, "") :
        f \in {"json", "semi"}, oc \in Outcomes }

\* the secret field present, right and wrong
KeyedBodies ==
    { Body("comma", oc, "t1", <<"o1", "", "">>, k) :
        oc \in Outcomes, k \in {EPN_RESTRICT_KEY, WrongKey} }
    \cup { Body("json", "Y", "t1", <<"o1", "", "">>, k) :
             k \in {EPN_RESTRICT_KEY, WrongKey} }

\* the transaction id, the order id or both absent
LackingFields ==
    { <<"", <<"o1", "", "">> >>, <<"t1", <<"", "", "">> >>, <<"", <<"", "", "">> >> }

LackingBodies ==
    { Body("comma", oc, m[1], m[2], "") : oc \in Outcomes, m \in LackingFields }
    \cup { Body("comma", "Y", m[1], m[2], WrongKey) : m \in LackingFields }

\* the order id in the other fields, and two fields that disagree
OtherIdBodies ==
    { Body("comma", oc, "t1", of, "") :
        oc \in {"Y", "N"},
        of \in { <<"", "", "o1">>, <<"o1", "", "o2">>, <<"", "o1", "">> } }

\* a declined postback that also carries a field Response whose text starts
\* with 'Y'
ResponseBodies ==
    { [ Body("comma", "N", "t1", <<"o1", "", "">>, "") EXCEPT !.Response = "Y" ] }

Payloads ==
    PlainBodies \cup FormatBodies \cup KeyedBodies \cup LackingBodies
    \cup OtherIdBodies \cup ResponseBodies

\* an empty event.body
NoBody ==
    [ fmt |-> "none", Outcome |-> "", XactID |-> "",
      PostbackOrderID |-> "", PostbackID |-> "", OrderID |-> "",
      RestrictKey |-> "", AuthCode |-> "", Response |-> "" ]

Bodies == Payloads \cup {NoBody}

\* the store call of a request that returns an error, if any
FailPoints(v) ==
    IF v = "payment-postback"
    THEN {"none", "payment_logs", "orders", "payments"}
    ELSE {"none", "orders"}

----------------------------------------------------------------------------
(* Rows                                                                    *)

\* What the model keeps of a parsed body stored in a row (processor_response,
\* rawResponse, fullResponse): the outcome code and the fields the client
\* notifier reads back (paymentService.ts:37-39).
RawData(data) ==
    [ Outcome |-> data.Outcome, XactID |-> data.XactID,
      AuthCode |-> data.AuthCode, Response |-> data.Response ]

NoData == [ Outcome |-> "", XactID |-> "", AuthCode |-> "", Response |-> "" ]

NoResponse ==
    [ success |-> FALSE, authCode |-> "", transactionId |-> "", rawResponse |-> NoData ]

NoRow ==
    [ payment_status |-> "absent", payment_processor_id |-> "",
      payment_processor_response |-> NoResponse ]

\* the row the Charge Initiator inserts at submit time
PendingRow ==
    [ payment_status |-> "pending", payment_processor_id |-> "",
      payment_processor_response |-> NoResponse ]

NoLog == [ order_id |-> "", payment_status |-> "absent", processor_response |-> NoData ]

NoReq ==
    [ outcome |-> "", lacks |-> FALSE, badKey |-> FALSE, storeError |-> FALSE,
      wrote |-> {}, changed |-> FALSE ]

NoResp ==
    [ statusCode |-> 0, status |-> "", transactionId |-> "", orderId |-> "",
      error |-> "" ]

Terminal == {"paid", "failed"}

\* a checkout that has not been submitted
NoCall ==
    [ pc |-> "idle", bad |-> {}, fine |-> TRUE, thrown |-> "", amount |-> 0,
      cardNumber |-> 0, cvv |-> 0, expired |-> FALSE ]

NoResult == [ state |-> "none", message |-> "" ]

NoEnd == [ caught |-> "", status |-> "", message |-> "" ]

----------------------------------------------------------------------------
(* Parsing                                                                 *)

\* the parsed body with no recognised key
EmptyData == [ NoBody EXCEPT !.fmt = "data" ]

Parsed(p) == [ p EXCEPT !.fmt = "data" ]

\* payment-postback.ts:33-51: the body is split on ';' when it holds one and
\* on ',' otherwise; a JSON body yields only keys such as {"Success":"Y"
ParsePaymentPostback(p) ==
    IF p.fmt \in {"comma", "semi"} THEN Parsed(p) ELSE EmptyData

\* part_004:49-101: JSON.parse first, the delimited formats when it throws
ParsePart004(p) ==
    Parsed(p)

\* part_006:129-159: the body is split on ',' only, and Success and RespText
\* are required: a ';' body yields the single key Success, a JSON body none
Part006ParseOk(p) ==
    p.fmt = "comma" /\ p.Outcome # ""

ParsePart006(p) ==
    IF p.fmt = "comma" THEN Parsed(p) ELSE EmptyData

\* a || b || c on strings
Or3(a, b, c) ==
    IF a # "" THEN a ELSE IF b # "" THEN b ELSE c

Or2(a, b) ==
    IF a # "" THEN a ELSE b

----------------------------------------------------------------------------
(* Store calls                                                             *)

\* an update that takes a transaction id already on the row for a failure
UpdateOrder_DupFails(tbl, orderId, row) ==
    IF orderId \notin DOMAIN tbl \/ tbl[orderId] = NoRow THEN tbl
    ELSE IF tbl[orderId].payment_processor_id = row.payment_processor_id
    THEN [tbl EXCEPT ![orderId].payment_status = "failed"]
    ELSE [tbl EXCEPT ![orderId] = row]

\* supabase.from('orders').update(cols).eq('order_id', orderId): every row
\* with that id gets the columns; no row, no change and no error
UpdateOrder(tbl, orderId, row) ==
    IF orderId \notin DOMAIN tbl \/ tbl[orderId] = NoRow THEN tbl
    ELSE [tbl EXCEPT ![orderId] = row]

\* .update({payment_status: 'paid'}).eq('order_id', orderId)
UpdateOrderStatus(tbl, orderId, status) ==
    IF orderId \notin DOMAIN tbl \/ tbl[orderId] = NoRow THEN tbl
    ELSE [tbl EXCEPT ![orderId].payment_status = status]

\* supabase.from('payment_logs').upsert(row, {onConflict: 'transaction_id'})
UpsertLog(tbl, transactionId, row) ==
    IF transactionId \notin DOMAIN tbl THEN tbl
    ELSE [tbl EXCEPT ![transactionId] = row]

\* supabase.from('payments').insert(row)
InsertPayment(tbl, row) ==
    tbl (+) SetToBag({row})

----------------------------------------------------------------------------
(* The handlers: each maps event.body and the failing store call to the    *)
(* tables afterwards and the HTTP answer.                                  *)

Rejected(message) ==
    [ orders |-> orders, payment_logs |-> payment_logs, payments |-> payments,
      storeError |-> FALSE, wrote |-> {},
      resp |-> [ statusCode |-> 500, status |-> "", transactionId |-> "",
                 orderId |-> "", error |-> message ] ]

Answer(status, transactionId, orderId) ==
    [ statusCode |-> 200, status |-> status, transactionId |-> transactionId,
      orderId |-> orderId, error |-> "" ]

\* payment-postback.ts:94-95
LogStatus(success, code) ==
    IF success THEN "completed" ELSE IF code = "N" THEN "failed" ELSE "pending"

\* payment-postback.ts:160-161
AckStatus(success, code) ==
    IF success THEN "approved" ELSE IF code = "N" THEN "declined" ELSE "pending"

\* part_004:188-189, part_006:222-223
OrderStatus(success, code) ==
    IF success THEN "paid" ELSE IF code = "N" THEN "failed" ELSE "pending"

\* a check that forgets the order id
RequiredMissing_TxOnly(transactionId, orderId) ==
    transactionId = ""

\* payment-postback.ts:61, part_004:152, part_006:186
RequiredMissing(transactionId, orderId) ==
    transactionId = "" \/ orderId = ""

\* payment-postback.ts:11-185
handler_payment_postback(p, f) ==
    IF p = NoBody THEN Rejected("Missing request body")
    ELSE
    LET data == ParsePaymentPostback(p)
        transactionId == data.XactID
        \* data['Postback.OrderID'] || data.PostbackID || data.OrderID || data.orderId
        \* (no body of the model carries the key orderId)
        orderId == Or3(data.PostbackOrderID, data.PostbackID, data.OrderID)
        \* data.Success === 'Y' || data.Response?.startsWith('Y')
        success == data.Outcome = "Y" \/ data.Response = "Y"
    IN
    IF RequiredMissing(transactionId, orderId) THEN Rejected("Missing required fields")
    ELSE
    [ payment_logs |->
          IF f = "payment_logs" THEN payment_logs
          ELSE UpsertLog(payment_logs, transactionId,
                   [ order_id |-> orderId,
                     payment_status |-> LogStatus(success, data.Outcome),
                     processor_response |-> RawData(data) ]),
      orders |->
          IF success /\ f # "orders"
          THEN UpdateOrderStatus(orders, orderId, "paid")
          ELSE orders,
      payments |->
          IF success /\ f # "payments"
          THEN InsertPayment(payments,
                   [ order_id |-> orderId, transaction_id |-> transactionId ])
          ELSE payments,
      \* the three errors are logged only (lines 102-110, 118-125, 136-144)
      storeError |-> f = "payment_logs" \/ (success /\ f \in {"orders", "payments"}),
      wrote |-> IF success THEN {"payment_logs", "orders", "payments"}
                ELSE {"payment_logs"},
      resp |-> Answer(AckStatus(success, data.Outcome), transactionId, orderId) ]

\* a check that insists on the secret
KeyRejected_AbsentToo(data) ==
    data.RestrictKey # EPN_RESTRICT_KEY

\* part_004:110-116, part_006:168-174
KeyRejected(data) ==
    data.RestrictKey # "" /\ data.RestrictKey # EPN_RESTRICT_KEY

\* part_004:24-255
handler_part_004(p, f) ==
    IF p = NoBody THEN Rejected("Missing postback data")
    ELSE
    LET data == ParsePart004(p)
        \* fullResponseText.charAt(0), '' when FullResponse is absent
        code == data.Outcome
        success == code = "Y"
        transactionId == data.XactID
        orderId == Or2(data.PostbackOrderID, data.OrderID)
        status == OrderStatus(success, code)
    IN
    IF KeyRejected(data) THEN Rejected("Invalid RestrictKey")
    ELSE IF RequiredMissing(transactionId, orderId)
    THEN Rejected("Missing required fields")
    ELSE IF f = "orders"
    THEN [ Rejected("Failed to update order status")
             EXCEPT !.storeError = TRUE, !.wrote = {"orders"} ]
    ELSE
    [ orders |->
          UpdateOrder(orders, orderId,
              [ payment_status |-> status,
                payment_processor_id |-> transactionId,
                payment_processor_response |->
                    [ success |-> success, authCode |-> data.AuthCode,
                      transactionId |-> transactionId,
                      rawResponse |-> RawData(data) ] ]),
      payment_logs |-> payment_logs,
      payments |-> payments,
      storeError |-> FALSE, wrote |-> {"orders"},
      resp |-> Answer(status, transactionId, orderId) ]

\* part_006:101-288
handler_part_006(p, f) ==
    IF p = NoBody THEN Rejected("Missing postback data")
    ELSE IF ~Part006ParseOk(p) THEN Rejected("Invalid postback data format")
    ELSE
    LET data == ParsePart006(p)
        success == data.Outcome = "Y"
        transactionId == data.XactID
        orderId == Or2(data.PostbackOrderID, data.OrderID)
        status == OrderStatus(success, data.Outcome)
    IN
    IF KeyRejected(data) THEN Rejected("Invalid RestrictKey")
    ELSE IF RequiredMissing(transactionId, orderId)
    THEN Rejected("Missing required fields")
    ELSE IF f = "orders"
    THEN [ Rejected("Failed to update order status")
             EXCEPT !.storeError = TRUE, !.wrote = {"orders"} ]
    ELSE
    [ orders |->
          UpdateOrder(orders, orderId,
              [ payment_status |-> status,
                payment_processor_id |-> transactionId,
                payment_processor_response |->
                    [ success |-> success, authCode |-> data.AuthCode,
                      transactionId |-> transactionId,
                      rawResponse |-> RawData(data) ] ]),
      payment_logs |-> payment_logs,
      payments |-> payments,
      storeError |-> FALSE, wrote |-> {"orders"},
      resp |-> Answer(status, transactionId, orderId) ]

\* the deployed handler
handler(p, f) ==
    IF variant = "payment-postback" THEN handler_payment_postback(p, f)
    ELSE IF variant = "part_004" THEN handler_part_004(p, f)
    ELSE handler_part_006(p, f)

\* What the processor sent (whatever the handler makes of it): its outcome
\* code, whether it lacks the transaction id or every order-id field, and
\* whether it carries a secret other than the configured one; and what the
\* handler did: the tables it called, whether a call failed, whether a table
\* differs afterwards.
Summary(p, r) ==
    [ outcome |-> p.Outcome,
      lacks |-> p.XactID = "" \/ Or3(p.PostbackOrderID, p.PostbackID, p.OrderID) = "",
      badKey |-> p.RestrictKey # "" /\ p.RestrictKey # EPN_RESTRICT_KEY,
      storeError |-> r.storeError,
      wrote |-> r.wrote,
      changed |-> <<r.orders, r.payment_logs, r.payments>> # store ]

\* CheckoutPage before handleSubmit: pc is the position of handleSubmit, nav
\* the route navigate() was last called with
NoPage ==
    [ mounted |-> TRUE, pc |-> "idle", paymentStatus |-> "none", error |-> "",
      cart |-> "items", nav |-> "", message |-> "" ]

\* subscribeToOrder not called
NoWatch ==
    [ pc |-> "idle", interval |-> FALSE, inflight |-> 0, cancelled |-> FALSE,
      last |-> "" ]

\* The postgres_changes message for the payment_logs row a request has
\* written, sent to the subscription (paymentService.ts:18-27: event '*',
\* table payment_logs, filter order_id=eq.orderId) when it is joined.
Published(r, f) ==
    IF /\ sub = "active"
       /\ "payment_logs" \in r.wrote /\ f # "payment_logs"
       /\ r.resp.transactionId \in DOMAIN r.payment_logs
       /\ r.payment_logs[r.resp.transactionId].order_id \in Checkouts
       /\ r.payment_logs[r.resp.transactionId].payment_status # "absent"
    THEN { r.payment_logs[r.resp.transactionId] }
    ELSE {}

----------------------------------------------------------------------------
(* Actions                                                                 *)

Init ==
    /\ variant \in Variants
    /\ orders = [o \in OrderIds |-> NoRow]
    /\ payment_logs = [t \in TxIds |-> NoLog]
    /\ payments = EmptyBag
    /\ req = NoReq
    /\ resp = NoResp
    /\ svc = "paymentService.ts:52"
    /\ configured = TRUE
    /\ call = [o \in OrderIds |-> NoCall]
    /\ result = [o \in OrderIds |-> NoResult]
    /\ fnReq = {}
    /\ fnResp = [o \in OrderIds |-> 0]
    /\ epnWait = {}
    /\ epnSent = {}
    /\ total = [o \in OrderIds |-> <<>>]
    /\ console = {}
    /\ fnEnd = [o \in OrderIds |-> NoEnd]
    /\ page = NoPage
    /\ timer = "none"
    /\ dwell = {}
    /\ sub = "none"
    /\ events = {}
    /\ watch = NoWatch
    /\ calls = 0

\* The order row is inserted in status pending at submit time (no file of
\* src/ holds the insert).
CreateOrder(o) ==
    /\ resp = NoResp
    /\ orders[o] = NoRow
    /\ orders' = [orders EXCEPT ![o] = PendingRow]
    /\ UNCHANGED <<variant, payment_logs, payments, req, resp>>
    /\ UNCHANGED initiateVars
    /\ UNCHANGED clientVars

\* The processor posts body p; the store call f of this request fails.
Ingest(p, f) ==
    /\ resp = NoResp
    /\ \E r \in {handler(p, f)} :
        /\ BagCardinality(r.payments) <= MaxPayments
        /\ orders' = r.orders
        /\ payment_logs' = r.payment_logs
        /\ payments' = r.payments
        /\ req' = Summary(p, r)
        /\ resp' = r.resp
        /\ events' = events \cup Published(r, f)
    /\ UNCHANGED variant
    /\ UNCHANGED initiateVars
    /\ UNCHANGED <<pageVars, pollVars>>

IngestPaymentPostback ==
    /\ variant = "payment-postback"
    /\ \E p \in Bodies, f \in FailPoints(variant) : Ingest(p, f)

IngestPart004 ==
    /\ variant = "part_004"
    /\ \E p \in Bodies, f \in FailPoints(variant) : Ingest(p, f)

IngestPart006 ==
    /\ variant = "part_006"
    /\ \E p \in Bodies, f \in FailPoints(variant) : Ingest(p, f)

\* The processor reads the answer.
Ack ==
    /\ resp # NoResp
    /\ resp' = NoResp
    /\ req' = NoReq
    /\ UNCHANGED <<variant, orders, payment_logs, payments>>
    /\ UNCHANGED initiateVars
    /\ UNCHANGED clientVars

Next ==
    \/ \E o \in OrderIds : CreateOrder(o)
    \/ IngestPaymentPostback
    \/ IngestPart004
    \/ IngestPart006
    \/ Ack

Spec == Init /\ [][Next]_vars

----------------------------------------------------------------------------
(* Charge initiation: paymentService.processPayment in the browser and     *)
(* netlify/functions/process-payment.ts behind it                          *)

Services ==
    { "paymentService.ts:52", "paymentService.ts:180",
      "part_003:7", "part_003:190", "part_003:287" }

\* new Date() when the validator runs
Now == [ year |-> 2026, month |-> 6 ]

\* data.cardNumber: how many digits it holds, whether it holds white space,
\* whether it holds any other character (a dash)
Cards ==
    { [ digits |-> n, spaces |-> FALSE, other |-> FALSE ] : n \in {14, 15, 16, 17} }
    \cup { [ digits |-> 16, spaces |-> TRUE, other |-> FALSE ],
           [ digits |-> 16, spaces |-> FALSE, other |-> TRUE ] }

\* parseInt(data.expiryMonth): an integer, or NaN for a string with no
\* leading digits
Months ==
    { [ nan |-> FALSE, val |-> n ] : n \in {0, 1, 6, 12, 13} }
    \cup { [ nan |-> TRUE, val |-> 0 ] }

\* parseInt(data.expiryYear) of a two digit and of a four digit year
Years == {25, 26, 27, 2025, 2026, 2027}

\* data.cvv: its length and whether it is all digits
CVVs ==
    { [ len |-> n, numeric |-> TRUE ] : n \in {2, 3, 4, 5} }
    \cup { [ len |-> 3, numeric |-> FALSE ] }

\* data.amount in cents: 0.05, 0.50, 9.50, 19.99 and 120.00
Amounts == {5, 50, 950, 1999, 12000}

\* the character of a digit
DigitChar(n) ==
    <<"0", "1", "2", "3", "4", "5", "6", "7", "8", "9">>[n + 1]

\* the decimal digits of a natural number, as a string of characters
RECURSIVE IntDigits(_)
IntDigits(n) ==
    IF n < 10 THEN <<DigitChar(n)>>
    ELSE Append(IntDigits(n \div 10), DigitChar(n % 10))

\* Number(amount).toFixed(2) of an amount of c cents
toFixed2(c) ==
    IntDigits(c \div 100) \o <<".">> \o <<DigitChar((c % 100) \div 10), DigitChar(c % 10)>>

\* str.replace(/^(\d)\./, '0$1.'): a single digit before the point gets a 0
\* in front
PadOneDigit(str) ==
    IF Len(str) >= 2 /\ str[1] # "." /\ str[2] = "." THEN <<"0">> \o str ELSE str

\* paymentService.ts:4-7 and part_003:163-165
formatAmount(c) ==
    PadOneDigit(toFixed2(c))

\* the amount of the request body: formatAmount at paymentService.ts:85 and
\* part_003:219, toFixed(2) at paymentService.ts:154, part_003:46 and 317
FormatAmount(s, c) ==
    IF s \in {"paymentService.ts:52", "part_003:190"} THEN formatAmount(c)
    ELSE toFixed2(c)

\* data: shipping tells whether data.shippingAddress holds an address and a
\* ZIP code (the other required fields are always present)
PaymentDatas ==
    [ cardNumber : Cards, expiryMonth : Months, expiryYear : Years,
      cvv : CVVs, shipping : BOOLEAN, amount : Amounts ]

\* /^\d{15,16}$/.test(cardNumber) after replace(/\s+/g, '')
CardNumberOk(c) ==
    ~c.other /\ c.digits \in 15..16

\* validateCardNumber: the test runs on cardNumber.replace(/\D/g, '')
validateCardNumber(c) ==
    c.digits \in 15..16

\* month < 1 || month > 12: false when month is NaN
MonthOutOfRange(m) ==
    ~m.nan /\ (m.val < 1 \/ m.val > 12)

\* validateExpiryDate, and the same test inline at part_003:25-35
validateExpiryDate(m, y) ==
    LET currentYear == Now.year % 100
        currentMonth == Now.month
    IN  /\ ~MonthOutOfRange(m)
        /\ ~(y < currentYear)
        /\ ~(y = currentYear /\ ~m.nan /\ m.val < currentMonth)

\* /^\d{3,4}$/.test(data.cvv)
validateCVV(v) ==
    v.numeric /\ v.len \in 3..4

\* The error processPayment throws before it sends anything, "" when it
\* throws none.
\* paymentService.ts:55-82, part_003:193-216, part_003:290-314
Validate52(d) ==
    IF ~CardNumberOk(d.cardNumber) THEN "Invalid card number format"
    ELSE IF MonthOutOfRange(d.expiryMonth) THEN "Invalid expiry month"
    ELSE IF ~validateCVV(d.cvv) THEN "Invalid CVV format"
    ELSE ""

\* paymentService.ts:183-212
Validate180(d) ==
    IF ~d.shipping THEN "All payment fields are required"
    ELSE IF ~validateCardNumber(d.cardNumber) THEN "Invalid card number"
    ELSE IF ~validateExpiryDate(d.expiryMonth, d.expiryYear) THEN "Invalid expiry date"
    ELSE IF ~validateCVV(d.cvv) THEN "Invalid CVV"
    ELSE ""

\* part_003:12-51
Validate7(d) ==
    IF ~d.shipping THEN "All payment fields are required"
    ELSE IF ~CardNumberOk(d.cardNumber) THEN "Invalid card number"
    ELSE IF ~validateExpiryDate(d.expiryMonth, d.expiryYear) THEN "Invalid expiry date"
    ELSE IF ~validateCVV(d.cvv) THEN "Invalid CVV"
    ELSE ""

Validate(s, d) ==
    IF s = "paymentService.ts:180" THEN Validate180(d)
    ELSE IF s = "part_003:7" THEN Validate7(d)
    ELSE Validate52(d)

\* error.message of the returned Result: paymentService.ts:110-117 returns one
\* fixed text, the other services error.message
ErrorMessage(s, message) ==
    IF s = "paymentService.ts:52"
    THEN "Failed to send payment request. Please try again."
    ELSE message

\* a request sent whatever the validation said
Sends_Always(thrown) ==
    TRUE

\* the request to process-payment is sent when no check has thrown
Sends(thrown) ==
    thrown = ""

\* which of card number, expiry month and CVV of d are malformed: the card
\* number has 15 or 16 digits once white space is removed, the month is an
\* integer in 1..12, the CVV has 3 or 4 digits
Malformed(d) ==
    { f \in {"card", "month", "cvv"} :
        \/ f = "card" /\ ~CardNumberOk(d.cardNumber)
        \/ f = "month" /\ (d.expiryMonth.nan \/ d.expiryMonth.val \notin 1..12)
        \/ f = "cvv" /\ ~validateCVV(d.cvv) }

\* d is in order apart from these fields: the card has not expired and the
\* shipping address is there
Otherwise(d) ==
    LET yy == d.expiryYear % 100
    IN  /\ d.shipping
        /\ yy >= Now.year % 100
        /\ (yy = Now.year % 100 /\ ~d.expiryMonth.nan) => d.expiryMonth.val >= Now.month

\* the expiry of d, its year read as 20YY, lies before the current month
Expired(d) ==
    LET yy == d.expiryYear % 100
    IN  \/ yy < Now.year % 100
        \/ /\ yy = Now.year % 100
           /\ ~d.expiryMonth.nan /\ d.expiryMonth.val < Now.month

\* the field an error message names
Named(message) ==
    IF message \in {"Invalid card number format", "Invalid card number"} THEN "card"
    ELSE IF message \in {"Invalid expiry month", "Invalid expiry date"} THEN "month"
    ELSE IF message \in {"Invalid CVV format", "Invalid CVV"} THEN "cvv"
    ELSE ""

InitInitiate ==
    /\ variant = "payment-postback"
    /\ orders = [o \in OrderIds |-> NoRow]
    /\ payment_logs = [t \in TxIds |-> NoLog]
    /\ payments = EmptyBag
    /\ req = NoReq
    /\ resp = NoResp
    /\ svc \in Services
    /\ configured \in BOOLEAN
    /\ call = [o \in OrderIds |-> NoCall]
    /\ result = [o \in OrderIds |-> NoResult]
    /\ fnReq = {}
    /\ fnResp = [o \in OrderIds |-> 0]
    /\ epnWait = {}
    /\ epnSent = {}
    /\ total = [o \in OrderIds |-> <<>>]
    /\ console = {}
    /\ fnEnd = [o \in OrderIds |-> NoEnd]
    /\ page = NoPage
    /\ timer = "none"
    /\ dwell = {}
    /\ sub = "none"
    /\ events = {}
    /\ watch = NoWatch
    /\ calls = 0

\* the cardNumber of the request body: data.cardNumber.replace(/\s+/g, ''),
\* by its length (paymentService.ts:63, 126; part_003:19, 198, 295)
SentLength(c) ==
    c.digits + (IF c.other THEN 1 ELSE 0)

\* a logged rendering of a secret: so many asterisks, then so many of its
\* last characters in clear
Shown(stars, clear) == [ stars |-> stars, clear |-> clear ]

NotLogged == Shown(0, 0)

Least(a, b) == IF a < b THEN a ELSE b

\* the data logged as received
sanitizePaymentData_Raw(b) ==
    [ cardNumber |-> Shown(0, b.cardNumber), cvv |-> Shown(0, b.cvv) ]

\* process-payment.ts:18-25: `****${cardNumber.slice(-4)}` and '***'
sanitizePaymentData(b) ==
    [ cardNumber |-> IF b.cardNumber > 0
                     THEN Shown(4, Least(4, b.cardNumber))
                     ELSE NotLogged,
      cvv |-> Shown(3, 0) ]

\* part_002:6-9: cleaned.slice(-4).padStart(cleaned.length, '*')
maskCardNumber(n) ==
    Shown(IF n > 4 THEN n - 4 ELSE 0, Least(4, n))

\* part_002:12-14: '*'.repeat(cvv.length)
maskCVV(n) == Shown(n, 0)

\* part_002:22-43, on the cardNumber and cvv of a request body
sanitizePaymentData_part_002(b) ==
    [ cardNumber |-> IF b.cardNumber > 0 THEN maskCardNumber(b.cardNumber)
                     ELSE NotLogged,
      cvv |-> IF b.cvv > 0 THEN maskCVV(b.cvv) ELSE NotLogged ]

\* process-payment.ts:42-47: 'Payment request received', data sanitized
RequestReceivedEntry(o, b) ==
    [ line |-> "42", order |-> o,
      cardNumber |-> sanitizePaymentData(b).cardNumber,
      cvv |-> sanitizePaymentData(b).cvv,
      \* the body and the headers of the request hold no RestrictKey
      RestrictKey |-> "" ]

\* process-payment.ts:80-90: 'Sending request to EPN', the params without
\* CardNo and CVV2; RestrictKey: EPN_RESTRICT_KEY of line 57 stays among them
SendingRequestEntry(o) ==
    [ line |-> "80", order |-> o, cardNumber |-> NotLogged, cvv |-> NotLogged,
      RestrictKey |-> EPN_RESTRICT_KEY ]

\* processPayment(data) for the checkout with order id o, up to its fetch:
\* the checks, then the POST to process-payment; a throw ends the call with
\* the error Result of the catch.
ProcessPayment(o, d) ==
    /\ call[o].pc = "idle"
    /\ \E thrown \in {Validate(svc, d)} :
        /\ call' = [call EXCEPT ![o] =
               [ pc |-> IF thrown = "" THEN "awaiting" ELSE "done",
                 bad |-> Malformed(d), fine |-> Otherwise(d), thrown |-> thrown,
                 amount |-> d.amount,
                 \* the body's cardNumber and cvv, by their lengths
                 cardNumber |-> IF Sends(thrown) THEN SentLength(d.cardNumber)
                                ELSE 0,
                 cvv |-> IF Sends(thrown) THEN d.cvv.len ELSE 0,
                 expired |-> Expired(d) ]]
        /\ result' = [result EXCEPT ![o] =
               IF thrown = "" THEN NoResult
               ELSE [ state |-> "error", message |-> ErrorMessage(svc, thrown) ]]
        /\ fnReq' = IF Sends(thrown) THEN fnReq \cup {o} ELSE fnReq
        \* the body's amount, which process-payment.ts:61 hands on as
        \* Total: paymentData.amount.toString()
        /\ total' = IF Sends(thrown)
                     THEN [total EXCEPT ![o] = FormatAmount(svc, d.amount)]
                     ELSE total
    /\ UNCHANGED <<svc, configured, fnResp, epnWait, epnSent, console, fnEnd>>
    /\ UNCHANGED ingestVars
    /\ UNCHANGED clientVars

\* process-payment.ts:51
MissingEnvironment == "Missing required environment variables"

\* the error the handler's try block ends with for a reply: the FetchError
\* of a request that timed out (type 'request-timeout') or could not be made
\* (type 'system', 'request to ... failed, reason: ...'), the Error of line
\* 126 for a response that is not ok, "" for none
ErrorOf(reply) ==
    IF reply = "timeout" THEN "request-timeout"
    ELSE IF reply = "refused" THEN "request failed"
    ELSE IF reply = "notok" THEN "Payment processor error"
    ELSE ""

\* the transport failures among them
TransportErrors == {"request-timeout", "request failed"}

StillProcessing ==
    "The payment is still processing. Please check your email for confirmation or contact support if the charge appears on your card."

Unavailable ==
    "Payment service is temporarily unavailable. Please try again in a few moments."

\* an answer that hands error.message to the client
CatchBody_Echo(error) ==
    [ caught |-> error, status |-> "unprocessed", message |-> error ]

\* process-payment.ts:222-253: the body the catch answers
CatchBody(error) ==
    IF error = "request-timeout"
    THEN [ caught |-> error, status |-> "timeout", message |-> StillProcessing ]
    ELSE [ caught |-> error, status |-> "unprocessed", message |-> Unavailable ]

\* process-payment.ts:204-219: the body of the 200 answer; RespText stands
\* for the processor's text
ReplyBody(reply) ==
    [ caught |-> "",
      status |-> IF reply = "Y" THEN "approved"
                 ELSE IF reply = "N" THEN "declined" ELSE "unprocessed",
      message |-> "RespText" ]

\* process-payment.ts:35-104: the handler takes the POST, checks its
\* environment and sends the authorization request to the processor.
HandlerDispatch(o) ==
    /\ o \in fnReq
    /\ fnReq' = fnReq \ {o}
    /\ IF configured
       THEN /\ epnWait' = epnWait \cup {o}
            /\ epnSent' = epnSent \cup {o}
            /\ UNCHANGED <<fnResp, fnEnd>>
       ELSE \* line 51 throws, lines 244-252 answer
            /\ fnResp' = [fnResp EXCEPT ![o] = 500]
            /\ fnEnd' = [fnEnd EXCEPT ![o] = CatchBody(MissingEnvironment)]
            /\ UNCHANGED <<epnWait, epnSent>>
    /\ console' = console \cup {RequestReceivedEntry(o, call[o])}
                     \cup (IF configured THEN {SendingRequestEntry(o)} ELSE {})
    /\ UNCHANGED <<svc, configured, call, result, total>>
    /\ UNCHANGED ingestVars
    /\ UNCHANGED clientVars

\* what the fetch of line 93 comes back with: the processor's reply with
\* Success Y, N or U, a reply that is not ok, or a timeout
EpnReplies == {"Y", "N", "U", "notok", "timeout", "refused"}

\* process-payment.ts:106-253
HandlerStatus(reply) ==
    IF reply = "timeout" THEN 504
    ELSE IF reply \in {"notok", "refused"} THEN 500
    ELSE 200

HandlerReturn(o, reply) ==
    /\ o \in epnWait
    /\ epnWait' = epnWait \ {o}
    /\ fnResp' = [fnResp EXCEPT ![o] = HandlerStatus(reply)]
    /\ fnEnd' = [fnEnd EXCEPT ![o] =
           IF ErrorOf(reply) = "" THEN ReplyBody(reply)
           ELSE CatchBody(ErrorOf(reply))]
    /\ UNCHANGED <<svc, configured, call, result, fnReq, epnSent, total, console>>
    /\ UNCHANGED ingestVars
    /\ UNCHANGED clientVars

\* the services that call fetch themselves
FetchServices == {"paymentService.ts:52", "part_003:7", "part_003:287"}

\* paymentService.ts:88-108 does not look at the response; part_003:82-85
\* and 337-339 throw when it is not ok
FetchResult(s, statusCode) ==
    IF s = "paymentService.ts:52" \/ statusCode = 200
    THEN [ state |-> "ok", message |-> "" ]
    ELSE IF s = "part_003:7"
    THEN [ state |-> "error",
           message |-> IF statusCode = 504
                       THEN "The payment is still processing."
                       ELSE "Payment service is temporarily unavailable." ]
    ELSE [ state |-> "error", message |-> "Failed to initiate payment" ]

\* the fetch of processPayment resolves
ClientReturnFetch(o) ==
    /\ svc \in FetchServices
    /\ call[o].pc = "awaiting"
    /\ fnResp[o] # 0
    /\ call' = [call EXCEPT ![o].pc = "done"]
    /\ result' = [result EXCEPT ![o] = FetchResult(svc, fnResp[o])]
    /\ UNCHANGED <<svc, configured, fnReq, fnResp, epnWait, epnSent, total,
                   console, fnEnd>>
    /\ UNCHANGED ingestVars
    /\ UNCHANGED clientVars

\* callNetlifyFunction (lib/supabase) resolves: result.error is set for an
\* answer that is not 2xx
ClientReturnCall(o) ==
    /\ svc \notin FetchServices
    /\ call[o].pc = "awaiting"
    /\ fnResp[o] # 0
    /\ call' = [call EXCEPT ![o].pc = "done"]
    /\ result' = [result EXCEPT ![o] =
           IF fnResp[o] = 200 THEN [ state |-> "ok", message |-> "" ]
           ELSE [ state |-> "error", message |-> "Failed to process payment" ]]
    /\ UNCHANGED <<svc, configured, fnReq, fnResp, epnWait, epnSent, total,
                   console, fnEnd>>
    /\ UNCHANGED ingestVars
    /\ UNCHANGED clientVars

NextInitiate ==
    \/ \E o \in Checkouts : CreateOrder(o)
    \/ \E o \in Checkouts, d \in PaymentDatas : ProcessPayment(o, d)
    \/ \E o \in OrderIds : HandlerDispatch(o)
    \/ \E o \in OrderIds, reply \in EpnReplies : HandlerReturn(o, reply)
    \/ \E o \in OrderIds : ClientReturnFetch(o)
    \/ \E o \in OrderIds : ClientReturnCall(o)

SpecInitiate == InitInitiate /\ [][NextInitiate]_vars

----------------------------------------------------------------------------
(* The checkout page: pages/CheckoutPage.tsx with the paymentService of    *)
(* paymentService.ts:9-119 and the handler payment-postback.ts             *)

\* what the form holds at submit: a valid card, and one with a 2 digit CVV
ValidData ==
    [ cardNumber |-> [ digits |-> 16, spaces |-> FALSE, other |-> FALSE ],
      expiryMonth |-> [ nan |-> FALSE, val |-> 12 ], expiryYear |-> 2027,
      cvv |-> [ len |-> 3, numeric |-> TRUE ], shipping |-> TRUE, amount |-> 1999 ]

CheckoutDatas ==
    { ValidData, [ ValidData EXCEPT !.cvv = [ len |-> 2, numeric |-> TRUE ] ] }

\* the postbacks of the processor for the submitted checkout
CheckoutBodies ==
    { Body("comma", oc, "t1", <<o, "", "">>, "") : oc \in Outcomes, o \in Checkouts }

TimeoutMessage == "Payment processing timeout"

\* CheckoutPage.tsx:26-35, the cleanup of the effect: unsubscribeRef.current()
\* and clearTimeout(timeoutRef.current), each when the ref is set
CleanupSub(mounted) ==
    IF mounted /\ sub = "active" THEN "closed" ELSE sub

CleanupTimer(mounted) ==
    IF mounted /\ timer = "pending" THEN "cleared" ELSE timer

\* CheckoutPage.tsx:159-165
HandleSubmit ==
    /\ page.mounted
    /\ page.pc = "idle"
    /\ page' = [page EXCEPT !.pc = "initiating", !.paymentStatus = "processing"]
    /\ UNCHANGED <<timer, dwell, sub, events, watch, calls>>
    /\ UNCHANGED <<ingestVars, initiateVars>>

\* CheckoutPage.tsx:189: paymentService.processPayment(paymentData)
CallProcessPayment ==
    /\ page.pc = "initiating"
    /\ \E o \in Checkouts, d \in CheckoutDatas : ProcessPayment(o, d)

\* CheckoutPage.tsx:189-223, once processPayment has returned: the catch for
\* an error result, else the subscription and the 2 minute timer
SubmitReturned(o) ==
    /\ page.pc = "initiating"
    /\ call[o].pc = "done"
    /\ IF result[o].state = "error"
       THEN /\ page' = [page EXCEPT !.pc = "failed", !.paymentStatus = "error",
                                    !.error = result[o].message]
            /\ dwell' = dwell \cup {[ kind |-> "catch", message |-> result[o].message ]}
            /\ UNCHANGED <<sub, timer>>
       ELSE /\ page' = [page EXCEPT !.pc = "watching"]
            /\ sub' = "active"
            /\ timer' = "pending"
            /\ UNCHANGED dwell
    /\ UNCHANGED <<events, watch, calls>>
    /\ UNCHANGED <<ingestVars, initiateVars>>

\* paymentService.ts:33-41: what the callback gets for a payment_logs row
UpdateKind(row) ==
    IF row.payment_status = "completed" THEN "success"
    ELSE IF row.payment_status = "failed" THEN "declined"
    ELSE "error"

\* a postgres_changes message reaches the subscription: paymentService.ts:28-42
\* calls handlePaymentUpdate (CheckoutPage.tsx:37-78) up to its 5 second wait
Deliver(e) ==
    /\ sub = "active"
    /\ e \in events
    /\ events' = events \ {e}
    /\ timer' = IF timer = "pending" THEN "cleared" ELSE timer
    /\ page' = [page EXCEPT
           !.paymentStatus = IF UpdateKind(e) = "success" THEN "success" ELSE "error",
           !.error = IF UpdateKind(e) = "success" THEN page.error
                     ELSE e.processor_response.Response]
    /\ dwell' = dwell \cup
           {[ kind |-> UpdateKind(e), message |-> e.processor_response.Response ]}
    /\ UNCHANGED <<sub, watch, calls>>
    /\ UNCHANGED <<ingestVars, initiateVars>>

\* every outcome sent to the error route
Destination_AllError(kind) ==
    "/payment/error"

\* the route of navigate() after the wait: CheckoutPage.tsx:50, 64, 73, 219
Destination(kind) ==
    IF kind = "success" THEN "/payment/success"
    ELSE IF kind = "declined" THEN "/payment/declined"
    ELSE "/payment/error"

\* a 5 second wait ends: CheckoutPage.tsx:48-57, 63-66, 72-75 and 218-221
DwellDone(k) ==
    /\ k \in dwell
    /\ dwell' = dwell \ {k}
    /\ \E cleared \in {IF k.kind = "success" THEN "cleared" ELSE page.cart} :
        /\ page' = [page EXCEPT !.nav = Destination(k.kind), !.message = k.message,
                                !.mounted = FALSE, !.cart = cleared]
        /\ sub' = CleanupSub(page.mounted)
        /\ timer' = CleanupTimer(page.mounted)
    /\ events' = IF sub' = "active" THEN events ELSE {}
    /\ UNCHANGED <<watch, calls>>
    /\ UNCHANGED <<ingestVars, initiateVars>>

\* a timeout handler that records the timeout on the order rows
TimeoutFire_MarksFailed ==
    /\ timer = "pending"
    /\ page' = [page EXCEPT !.paymentStatus = "error", !.error = TimeoutMessage,
                            !.nav = "/payment/error", !.message = TimeoutMessage,
                            !.mounted = FALSE]
    /\ sub' = CleanupSub(page.mounted)
    /\ timer' = "fired"
    /\ events' = IF sub' = "active" THEN events ELSE {}
    /\ orders' = [o \in OrderIds |-> IF o \in epnSent /\ orders[o] # NoRow
                                      THEN [orders[o] EXCEPT !.payment_status = "failed"]
                                      ELSE orders[o]]
    /\ UNCHANGED <<dwell, watch, calls>>
    /\ UNCHANGED <<variant, payment_logs, payments, req, resp>>
    /\ UNCHANGED initiateVars

\* the 2 minute timer fires: CheckoutPage.tsx:205-211
TimeoutFire ==
    /\ timer = "pending"
    /\ page' = [page EXCEPT !.paymentStatus = "error", !.error = TimeoutMessage,
                            !.nav = "/payment/error", !.message = TimeoutMessage,
                            !.mounted = FALSE]
    /\ sub' = CleanupSub(page.mounted)
    /\ timer' = "fired"
    /\ events' = IF sub' = "active" THEN events ELSE {}
    /\ UNCHANGED <<dwell, watch, calls>>
    /\ UNCHANGED <<ingestVars, initiateVars>>

\* the user leaves the page after submit: the component unmounts
Teardown ==
    /\ page.mounted
    /\ page.pc # "idle"
    /\ page' = [page EXCEPT !.mounted = FALSE]
    /\ sub' = CleanupSub(TRUE)
    /\ timer' = CleanupTimer(TRUE)
    /\ events' = IF sub' = "active" THEN events ELSE {}
    /\ UNCHANGED <<dwell, watch, calls>>
    /\ UNCHANGED <<ingestVars, initiateVars>>

\* the processor posts back for a request it has received
IngestCheckout ==
    \E p \in CheckoutBodies :
        /\ p.PostbackOrderID \in epnSent
        /\ Ingest(p, "none")

InitCheckout ==
    /\ Init
    /\ variant = "payment-postback"

NextCheckout ==
    \/ \E o \in Checkouts : CreateOrder(o)
    \/ HandleSubmit
    \/ CallProcessPayment
    \/ \E o \in Checkouts : HandlerDispatch(o)
    \/ \E o \in Checkouts, reply \in EpnReplies : HandlerReturn(o, reply)
    \/ \E o \in Checkouts : ClientReturnFetch(o)
    \/ \E o \in Checkouts : SubmitReturned(o)
    \/ IngestCheckout
    \/ Ack
    \/ \E e \in events : Deliver(e)
    \/ \E k \in dwell : DwellDone(k)
    \/ TimeoutFire
    \/ Teardown

SpecCheckout == InitCheckout /\ [][NextCheckout]_vars

\* timers that are pending fire
SpecCheckoutFair == SpecCheckout /\ WF_vars(TimeoutFire)

----------------------------------------------------------------------------
(* The polling client: subscribeToOrder of part_003:114-157 asking the     *)
(* status endpoint part_005, with the handler part_004 writing orders      *)

\* part_003:114-117: subscribeToOrder is called and waits 5 seconds
SubscribeToOrder ==
    /\ watch.pc = "idle"
    /\ watch' = [watch EXCEPT !.pc = "delay"]
    /\ UNCHANGED <<calls, pageVars, events>>
    /\ UNCHANGED <<ingestVars, initiateVars>>

\* part_003:141: the first checkOrderStatus() sends its request
FirstCheck ==
    /\ watch.pc = "delay"
    /\ watch' = [watch EXCEPT !.pc = "first", !.inflight = 1]
    /\ UNCHANGED <<calls, pageVars, events>>
    /\ UNCHANGED <<ingestVars, initiateVars>>

\* part_003:144: the interval timer ticks and checkOrderStatus sends a request
Tick ==
    /\ watch.interval
    /\ watch.inflight < MaxInflight
    /\ watch' = [watch EXCEPT !.inflight = @ + 1]
    /\ UNCHANGED <<calls, pageVars, events>>
    /\ UNCHANGED <<ingestVars, initiateVars>>

\* part_005:37-55: the status the endpoint answers for order o, "" when
\* .single() finds no row and the endpoint answers 500
StatusOf(o) ==
    IF orders[o] = NoRow THEN "" ELSE orders[o].payment_status

\* part_003:132-134: clearInterval(interval) for a status of the list. In the
\* first check `interval` is not initialised yet: the statement throws into the
\* catch of line 135 and the timer of line 144 is started all the same.
StopsPolling(status) ==
    status \in {"completed", "failed"}

\* part_003:119-138: a status request is answered. For an answer with no
\* status the callback gets 'pending', unless callNetlifyFunction reports
\* 'order not found' (skip).
CheckOrderStatus(o, skip) ==
    /\ watch.inflight > 0
    /\ skip => StatusOf(o) = ""
    /\ calls < MaxCalls
    /\ \E status \in {IF StatusOf(o) = "" THEN "pending" ELSE StatusOf(o)} :
        /\ calls' = IF skip THEN calls ELSE calls + 1
        /\ watch' = [watch EXCEPT
               !.inflight = @ - 1,
               !.last = IF skip THEN @ ELSE status,
               !.pc = IF @ = "first" THEN "polling" ELSE @,
               !.interval = IF watch.pc = "first" THEN TRUE
                            ELSE IF ~skip /\ StopsPolling(status) THEN FALSE
                            ELSE @ ]
    /\ UNCHANGED <<pageVars, events>>
    /\ UNCHANGED <<ingestVars, initiateVars>>

\* part_003:148-151: the caller invokes unsubscribe of the returned handle
Unsubscribe ==
    /\ watch.pc = "polling"
    /\ ~watch.cancelled
    /\ watch' = [watch EXCEPT !.cancelled = TRUE, !.interval = FALSE]
    /\ UNCHANGED <<calls, pageVars, events>>
    /\ UNCHANGED <<ingestVars, initiateVars>>

IngestPoll ==
    \E p \in CheckoutBodies, f \in FailPoints(variant) : Ingest(p, f)

InitPoll ==
    /\ Init
    /\ variant = "part_004"

NextPoll ==
    \/ \E o \in Checkouts : CreateOrder(o)
    \/ IngestPoll
    \/ Ack
    \/ SubscribeToOrder
    \/ FirstCheck
    \/ Tick
    \/ \E o \in Checkouts, skip \in BOOLEAN : CheckOrderStatus(o, skip)
    \/ Unsubscribe

SpecPoll == InitPoll /\ [][NextPoll]_vars

----------------------------------------------------------------------------
(* Properties of postback ingestion                                        *)

\* the transaction ids stored for order o
StoredTx(ord, logs, pays, o) ==
    [ processor_id |-> ord[o].payment_processor_id,
      logged |-> { t \in TxIds : logs[t].order_id = o },
      paid |-> { row.transaction_id : row \in { x \in BagToSet(pays) : x.order_id = o } } ]

\* an answered, accepted approved or declined postback for an order that has
\* a row, with no store error
TerminalIngested ==
    /\ resp.statusCode = 200
    /\ req.outcome \in {"Y", "N"}
    /\ ~req.storeError
    /\ orders[resp.orderId] # NoRow

\* C1: right after a terminal postback (approved or declined, with its
\* transaction id and the id of an existing order) has been ingested with a
\* 200 answer, ingesting the same postback again answers 200 again and leaves
\* the order's status and the transaction ids stored for the order as they are.
C1_Idempotent ==
    TerminalIngested =>
        \A p \in Payloads :
            (p.Outcome = req.outcome /\ handler(p, "none").resp = resp) =>
                LET r == handler(p, "none")
                    o == resp.orderId
                IN  /\ r.resp.statusCode = 200
                    /\ r.orders[o].payment_status = orders[o].payment_status
                    /\ StoredTx(r.orders, r.payment_logs, r.payments, o)
                           = StoredTx(orders, payment_logs, payments, o)

\* an approved postback was answered 200 and changed no table: the order was
\* already paid with that transaction id, by an earlier ingest of the same
C1_Witness ==
    /\ TerminalIngested
    /\ req.outcome = "Y"
    /\ ~req.changed
    /\ orders[resp.orderId].payment_status = "paid"
    /\ orders[resp.orderId].payment_processor_id = resp.transactionId

\* C2: once an order's stored status is paid or failed, no step sets it back
\* to pending.
C2_NoRegress ==
    [][ \A o \in OrderIds :
          orders[o].payment_status \in Terminal =>
              orders'[o].payment_status # "pending" ]_vars

\* C3: once an order is paid or failed its row never changes again (status,
\* stored transaction id, auth code, stored payload).
C3_TerminalAbsorbing ==
    [][ \A o \in OrderIds :
          orders[o].payment_status \in Terminal => orders'[o] = orders[o] ]_vars

\* C4: an accepted postback without a wrong secret, for an order in status
\* pending and with no store error, leaves the order paid when its outcome is
\* approved and failed when it is declined.
C4_OutcomeMapping ==
    [][ ( /\ resp = NoResp
          /\ resp'.statusCode = 200
          /\ ~req'.badKey
          /\ ~req'.storeError
          /\ orders[resp'.orderId].payment_status = "pending" ) =>
        ( /\ req'.outcome = "Y" => orders'[resp'.orderId].payment_status = "paid"
          /\ req'.outcome = "N" => orders'[resp'.orderId].payment_status = "failed" )
      ]_vars

\* C5: ingesting a postback whose outcome is neither approved nor declined
\* leaves every order row exactly as it was.
C5_IndeterminateNoMutation ==
    [][ (resp = NoResp /\ resp' # NoResp /\ req'.outcome = "U") =>
            orders' = orders ]_vars

C7_Authentication ==
    req.badKey =>
        /\ resp.statusCode # 200
        /\ req.wrote = {}
        /\ ~req.changed

----------------------------------------------------------------------------
(* Properties of charge initiation                                         *)

\* C8: whenever the authorization request for an order is sent to the
\* processor, the order's row already exists in the store with status pending.
C8_InsertBeforeDispatch ==
    [][ \A o \in OrderIds :
          (o \notin epnSent /\ o \in epnSent') =>
              orders[o].payment_status = "pending" ]_vars

\* the messages of the card number, expiry and CVV checks
ValidationMessages ==
    { "Invalid card number format", "Invalid card number",
      "Invalid expiry month", "Invalid expiry date",
      "Invalid CVV format", "Invalid CVV" }

\* C9: when the card number, the expiry or the CVV of a submitted checkout
\* fails validation, processPayment returns an error result, the call creates
\* no order row, and no request for the order is sent to process-payment or
\* reaches the processor.
C9_ValidationNoSideEffects ==
    [][ \A o \in OrderIds :
          call'[o].thrown \in ValidationMessages =>
              /\ result'[o].state = "error"
              /\ call'[o].pc = "done"
              /\ o \notin fnReq' /\ fnResp'[o] = 0
              /\ o \notin epnWait' /\ o \notin epnSent'
              /\ call[o].pc = "idle" => orders' = orders ]_vars

\* a checkout with a malformed CVV only was rejected by the CVV check, with no
\* row for its order
C9_Witness ==
    \E o \in OrderIds :
        /\ call[o].thrown \in {"Invalid CVV format", "Invalid CVV"}
        /\ call[o].bad = {"cvv"}
        /\ result[o].state = "error"
        /\ orders[o] = NoRow

\* C10: a submitted input whose card number, month and CVV are all well formed
\* (and which is in order otherwise) is accepted, and an input in which
\* exactly one of the three is malformed gets an error result whose message
\* names that field.
C10_ValidatorAcceptReject ==
    \A o \in OrderIds :
        call[o].pc # "idle" /\ call[o].fine =>
            /\ call[o].bad = {} => call[o].thrown = ""
            /\ \A f \in {"card", "month", "cvv"} :
                   call[o].bad = {f} =>
                       /\ result[o].state = "error"
                       /\ Named(result[o].message) = f

DigitChars == { DigitChar(n) : n \in 0..9 }

CharDigit(ch) ==
    CHOOSE n \in 0..9 : DigitChar(n) = ch

\* the number a string of digits writes
RECURSIVE NumberOf(_)
NumberOf(str) ==
    IF str = <<>> THEN 0
    ELSE NumberOf(SubSeq(str, 1, Len(str) - 1)) * 10 + CharDigit(str[Len(str)])

\* str renders c cents as a decimal with exactly two fractional digits and no
\* leading zero other than the single 0 of an amount under 1.00
IsTwoDecimalRendering(str, c) ==
    LET n == Len(str)
    IN  /\ n >= 4
        /\ str[n - 2] = "."
        /\ \A i \in (1..n) \ {n - 2} : str[i] \in DigitChars
        /\ n = 4 \/ str[1] # "0"
        /\ NumberOf(SubSeq(str, 1, n - 3)) * 100 + NumberOf(SubSeq(str, n - 1, n)) = c

\* C11: the Total of every authorization request sent to the processor is the
\* submitted amount written with exactly two fractional digits and no
\* superfluous leading zero (9.5 as "9.50", 0.5 as "0.50", 19.99 as "19.99").
C11_AmountFormatting ==
    \A o \in epnSent : IsTwoDecimalRendering(total[o], call[o].amount)

----------------------------------------------------------------------------
(* Properties of the checkout page                                         *)

ApprovedIngested ==
    \E t \in TxIds :
        /\ payment_logs[t].order_id \in Checkouts
        /\ payment_logs[t].payment_status = "completed"

\* C13: when an approved postback for the order has been ingested (whether
\* before or after processPayment returned and the page subscribed) and no
\* message about it is still on its way, the page does not run into the
\* timeout: the 2 minute timer does not fire.
C13_ApprovedObserved ==
    [][ (ApprovedIngested /\ events = {} /\ timer = "pending") =>
            timer' # "fired" ]_vars

\* C14: once the caller has invoked unsubscribe, the status callback is not
\* invoked again, also when a status request was unanswered at that moment.
C14_CleanCancellation ==
    [][ watch.cancelled => calls' = calls ]_vars

\* C15: once the page is unmounted after a submit, the subscription is closed
\* and no timer is pending (neither the 2 minute timer nor a 5 second wait),
\* and from then on no update is handled, no timeout handler runs, the cart is
\* not cleared and no navigation happens.
C15_CleanupOnTeardown ==
    /\ [](~page.mounted => (sub # "active" /\ timer # "pending" /\ dwell = {}))
    /\ [][ ~page.mounted =>
              /\ page'.paymentStatus = page.paymentStatus
              /\ page'.cart = page.cart
              /\ page'.nav = page.nav
              /\ timer' # "fired" ]_vars

\* a rendering that hides a secret of n characters but for at most its last
\* `most` characters
Hides(shown, n, most) ==
    shown.clear <= most /\ shown.clear < n

\* C16: every entry process-payment.ts logs shows of the submitted card
\* number at most its last 4 characters and never all of it, and nothing of
\* the submitted CVV; sanitizePaymentData of part_002 applied to the same
\* request body does the same.
C16_CardDataMasked ==
    /\ \A e \in console :
          /\ e.cardNumber = NotLogged
                \/ Hides(e.cardNumber, call[e.order].cardNumber, 4)
          /\ e.cvv.clear = 0
    /\ \A o \in OrderIds :
          call[o].cardNumber > 0 =>
              /\ Hides(sanitizePaymentData_part_002(call[o]).cardNumber,
                       call[o].cardNumber, 4)
              /\ sanitizePaymentData_part_002(call[o]).cvv.clear = 0

C16_Witness ==
    \E e \in console :
        /\ e.line = "42" /\ call[e.order].cardNumber = 16
        /\ call[e.order].cvv = 3
        /\ e.cardNumber = Shown(4, 4) /\ e.cvv = Shown(3, 0)
        /\ \E f \in console : f.line = "80" /\ f.order = e.order

\* C17: while the orders table holds no row, so that the update a postback
\* asks for matches zero rows, a postback that carries its required fields
\* and no wrong key is never answered with a 200, and no order row appears.
C17_UnknownOrderIsError ==
    [][ ( /\ resp = NoResp /\ resp' # NoResp
          /\ ~req'.lacks /\ ~req'.badKey
          /\ \A o \in OrderIds : orders[o] = NoRow )
        => (resp'.statusCode # 200 /\ orders' = orders) ]_vars

\* C18: an answered postback during whose ingestion a store write failed was
\* not answered with a 200.
C18_StoreFailureSurfaced ==
    (resp # NoResp /\ req.storeError) => resp.statusCode # 200

\* the error texts of a body that is absent or cannot be parsed and of a
\* missing transaction id or order id
UnparsedOrLacking ==
    { "Missing request body", "Missing postback data", "Missing required fields" }

\* C19: an answer other than a 200 is given only to a postback that has no
\* parsable body or lacks a required field.
C19_AckStatusPolicy ==
    (resp # NoResp /\ resp.statusCode # 200) => resp.error \in UnparsedOrLacking

\* C20: a transaction id recorded against an order id, in payment_logs or as
\* an order's payment_processor_id, is not later recorded against another.
C20_BindingStable ==
    [][ /\ \A t \in TxIds :
              payment_logs[t] # NoLog =>
                  payment_logs'[t].order_id = payment_logs[t].order_id
        /\ \A t \in TxIds, o \in OrderIds :
              orders[o].payment_processor_id = t =>
                  \A q \in OrderIds \ {o} :
                      orders'[q].payment_processor_id # t ]_vars

\* the payments rows of order o, with their multiplicity
PaymentRows(o) ==
    LET rows == { x \in BagToSet(payments) : x.order_id = o }
        RECURSIVE Sum(_)
        Sum(S) == IF S = {} THEN 0
                  ELSE LET x == CHOOSE y \in S : TRUE
                       IN CopiesIn(x, payments) + Sum(S \ {x})
    IN Sum(rows)

\* C21: every order has at most one payments row and at most one transaction
\* id recorded for it, in payment_logs, payments and payment_processor_id
\* together.
C21_OnePaymentPerOrder ==
    \A o \in OrderIds :
        /\ PaymentRows(o) <= 1
        /\ Cardinality({ t \in TxIds : payment_logs[t].order_id = o }
                       \cup { x.transaction_id :
                                x \in { y \in BagToSet(payments) : y.order_id = o } }
                       \cup ({orders[o].payment_processor_id} \ {""})) <= 1

\* C22: in every state of the store, a postback carrying the fields of a
\* delimited one as a JSON object or with the other separator is answered
\* with the same status code and status and leaves the same orders,
\* payment_logs and payments as the delimited one.
C22_FormatTransparency ==
    \A p \in PlainBodies \cup KeyedBodies :
        p.fmt = "comma" =>
            \A fmt \in Formats :
                LET q == [p EXCEPT !.fmt = fmt]
                    asComma == handler(p, "none")
                    asOther == handler(q, "none")
                IN /\ asOther.resp.statusCode = asComma.resp.statusCode
                   /\ asOther.resp.status = asComma.resp.status
                   /\ asOther.orders = asComma.orders
                   /\ asOther.payment_logs = asComma.payment_logs
                   /\ asOther.payments = asComma.payments

\* C23: once the polling notifier has handed the callback a terminal status
\* (paid or failed) and no request is in flight, it has stopped like a closed
\* push subscription: it sends no further status request and does not call
\* the callback again.
C23_PushPollEquivalent ==
    [][ (watch.last \in Terminal /\ watch.inflight = 0 /\ ~watch.cancelled)
            => (watch'.inflight = 0 /\ calls' = calls) ]_vars

\* C24: when the request to the processor ended in a transport failure, the
\* handler's answer says the payment is still processing (status timeout),
\* and the orders table is as it was before the initiation.
C24_ProcessorUnreachable ==
    \A o \in OrderIds :
        fnEnd[o].caught \in TransportErrors =>
            /\ fnEnd[o].status = "timeout"
            /\ fnEnd[o].message = StillProcessing
            /\ orders[o] \in {NoRow, PendingRow}

\* C25: when process-payment.ts has answered a call with a status other than
\* 200 without having sent a request to the processor, the result
\* processPayment returns to the page is an error.
C25_InitiationFailureReachesCaller ==
    \A o \in OrderIds :
        (call[o].pc = "done" /\ fnResp[o] \notin {0, 200} /\ o \notin epnSent)
            => result[o].state = "error"

\* C26: while EPN_ACCOUNT or EPN_RESTRICT_KEY is not set, no request goes to
\* the processor, and every call is answered 500 with the fixed text that
\* the service is unavailable, which is not the text of the error caught.
C26_ConfigurationErrorBlocksDispatch ==
    ~configured =>
        /\ epnSent = {} /\ epnWait = {}
        /\ \A o \in OrderIds :
              fnResp[o] # 0 =>
                  /\ fnResp[o] = 500
                  /\ fnEnd[o].message = Unavailable
                  /\ fnEnd[o].message # fnEnd[o].caught

C26_Witness ==
    \E o \in OrderIds :
        /\ ~configured /\ fnResp[o] = 500 /\ o \notin epnSent
        /\ fnEnd[o].caught = MissingEnvironment
        /\ call[o].pc = "done"

\* C27: when the open subscription hands the processing checkout an update
\* of a payment_logs row whose status is pending, the page stays processing,
\* the 2 minute timer stays armed and no wait for a navigation is started.
C27_ClientToleratesPending ==
    [][ \A e \in events :
          ( /\ e.payment_status = "pending"
            /\ sub = "active" /\ sub' = "active"
            /\ events' = events \ {e}
            /\ page.paymentStatus = "processing" /\ timer = "pending" )
          => ( /\ page'.paymentStatus = "processing"
               /\ timer' = "pending"
               /\ dwell' = dwell ) ]_vars

\* C28: a step changes an order row only by creating it as pending or while
\* a postback is ingested; the steps of the initiation, of the page, of its
\* subscription and of its timeout leave every row as it is.
C28_OrderStoreWriters ==
    [][ \A o \in OrderIds :
          orders'[o] # orders[o] =>
              \/ orders[o] = NoRow /\ orders'[o] = PendingRow
              \/ resp = NoResp /\ resp' # NoResp ]_vars

C28_Witness ==
    /\ timer = "fired" /\ page.nav = "/payment/error"
    /\ "o1" \in epnSent /\ orders["o1"] = PendingRow

\* C29: a call whose expiry lies before the current month, with a two digit
\* or a four digit year, has thrown a validation error and sent nothing.
C29_ExpiredCardsRejected ==
    \A o \in OrderIds :
        (call[o].pc # "idle" /\ call[o].expired) =>
            /\ call[o].thrown # ""
            /\ o \notin fnReq /\ o \notin epnSent

\* C30: a call whose expiry month does not parse to an integer of 1..12 has
\* thrown a validation error and sent nothing.
C30_MonthMustBeInteger ==
    \A o \in OrderIds :
        (call[o].pc # "idle" /\ "month" \in call[o].bad) =>
            /\ call[o].thrown # ""
            /\ o \notin fnReq /\ o \notin epnSent

\* C31: in every state of the store, a postback without the secret field is
\* answered with the same status code and status, and leaves the same orders,
\* payment_logs and payments, as the same postback carrying the configured
\* secret; and a postback that is turned down although it has its required
\* fields and no store call failed carries a secret that differs.
C31_AbsentSecretNeverBlocks ==
    /\ \A p \in KeyedBodies :
          p.RestrictKey = EPN_RESTRICT_KEY =>
              LET keyed == handler(p, "none")
                  bare == handler([p EXCEPT !.RestrictKey = ""], "none")
              IN /\ bare.resp.statusCode = keyed.resp.statusCode
                 /\ bare.resp.status = keyed.resp.status
                 /\ bare.orders = keyed.orders
                 /\ bare.payment_logs = keyed.payment_logs
                 /\ bare.payments = keyed.payments
    /\ resp.error = "Invalid RestrictKey" => req.badKey

C31_Witness ==
    /\ variant = "part_004"
    /\ resp.statusCode = 200 /\ resp.status = "paid" /\ ~req.badKey
    /\ orders["o1"].payment_status = "paid"
    /\ handler(Body("comma", "Y", "t1", <<"o1", "", "">>, ""), "none").resp
           = handler(Body("comma", "Y", "t1", <<"o1", "", "">>, EPN_RESTRICT_KEY),
                     "none").resp

\* the resolved status of an acknowledgement denotes the stored order status
Corresponds(ack, stored) ==
    \/ ack \in {"approved", "paid"} /\ stored = "paid"
    \/ ack \in {"declined", "failed"} /\ stored = "failed"
    \/ ack = "pending" /\ stored = "pending"

\* C32: when a postback for an order that has a row is answered 200 and no
\* store call failed, the status in the answer corresponds to the status the
\* order row has right after the ingest, and the transaction id in the answer
\* is one of the postbacks'.
C32_AckAgreesWithStore ==
    [][ ( /\ resp = NoResp /\ resp'.statusCode = 200
          /\ ~req'.storeError
          /\ resp'.orderId \in OrderIds
          /\ orders[resp'.orderId] # NoRow )
        => /\ resp'.transactionId \in TxIds
           /\ Corresponds(resp'.status, orders'[resp'.orderId].payment_status) ]_vars

\* C33: in every state of the store, the order id a handler answers with is
\* the postback's Postback.OrderID when that is not empty and its OrderID
\* otherwise.
C33_OrderIdPriority ==
    \A p \in Payloads :
        handler(p, "none").resp.statusCode = 200 =>
            handler(p, "none").resp.orderId = Or2(p.PostbackOrderID, p.OrderID)

\* C34: after the polling callback has been given a terminal status (paid or
\* failed) it is not called again, whether the first check or a later tick
\* read that status.
C34_PollingResolvesOnce ==
    [][ watch.last \in Terminal => calls' = calls ]_vars

\* everything recorded for order o is what one postback with transaction id
\* t and outcome code oc records: the status of the row once it is resolved,
\* its payment_processor_id, the payment_logs rows and the payments rows
FromOnePostback(o, t, oc) ==
    /\ orders[o].payment_status \in {"pending", OrderStatus(oc = "Y", oc)}
    /\ orders[o].payment_processor_id \in {"", t}
    /\ \A u \in TxIds :
          payment_logs[u].order_id = o =>
              /\ u = t
              /\ payment_logs[u].payment_status = LogStatus(oc = "Y", oc)
    /\ \A row \in BagToSet(payments) :
          row.order_id = o => (row.transaction_id = t /\ oc = "Y")

\* C35: whatever postbacks have been ingested for an order, everything
\* recorded for it comes from one of them.
C35_AtomicResolution ==
    \A o \in OrderIds :
        orders[o] # NoRow =>
            \E t \in TxIds, oc \in Outcomes : FromOnePostback(o, t, oc)

\* C36: once the page has navigated to an outcome screen, no later step
\* navigates again, changes the outcome shown or clears the cart.
C36_OneClientOutcome ==
    [][ page.nav # "" =>
            /\ page'.nav = page.nav
            /\ page'.message = page.message
            /\ page'.cart = page.cart ]_vars

\* the status of a payment_logs row denotes the status of an orders row
SameOutcome(logged, stored) ==
    \/ logged = "completed" /\ stored = "paid"
    \/ logged = "failed" /\ stored = "failed"
    \/ logged = "pending" /\ stored = "pending"

\* C37: when a postback for an order that has a row is answered 200, no store
\* call failed and a payment_logs row was written, that row and the row of
\* the order denote the same outcome right after the ingest.
C37_LogAndOrderAgree ==
    [][ ( /\ resp = NoResp /\ resp'.statusCode = 200
          /\ ~req'.storeError /\ "payment_logs" \in req'.wrote
          /\ resp'.orderId \in OrderIds /\ resp'.transactionId \in TxIds
          /\ orders[resp'.orderId] # NoRow )
        => SameOutcome(payment_logs'[resp'.transactionId].payment_status,
                       orders'[resp'.orderId].payment_status) ]_vars

\* C38: the ingest of a postback whose outcome code is N adds no payments row
\* and sets no order to paid, whatever else the postback carries.
C38_ExclusiveClassification ==
    [][ (resp = NoResp /\ resp' # NoResp /\ req'.outcome = "N")
            => /\ payments' = payments
               /\ \A o \in OrderIds :
                     orders'[o].payment_status = "paid"
                         => orders[o].payment_status = "paid" ]_vars

\* C39: no entry process-payment.ts logs holds the configured restrict key.
C39_SecretNeverLogged ==
    \A e \in console : e.RestrictKey # EPN_RESTRICT_KEY

====
